---- MODULE Spec2Model ----
(***************************************************************************)
(* Model of src/node/index.ts: a script that awaits one streamed           *)
(* chat-completion request (client.chat.completions.create, stream: true)  *)
(* and prints every chunk of the returned async iterable with a            *)
(* `for await` loop.                                                       *)
(*                                                                         *)
(* The script is the program; the remote endpoint and the async iterator   *)
(* the client hands back are its environment.  The environment is modelled *)
(* only through what the script can observe: the awaited create call       *)
(* resolves or rejects, and each iteration of the loop is settled with a   *)
(* chunk, with exhaustion, or with a rejection.                            *)
(***************************************************************************)
EXTENDS Integers, Sequences, FiniteSets, TLC

\* Largest number of chunks the endpoint emits in one response.
MaxChunks == 3

\* Payloads a chunk may carry (chunks are opaque to the script).
Contents == {"a", "b"}

\* Behaviours of the endpoint at baseURL for one run of the script.
\*   good        reachable, success status, emits chunks, then its terminal marker
\*   unreachable nothing listens at baseURL
\*   rejects     answers with a non-success status (e.g. HTTP 401)
\*   drops       reachable, success status, but may close before the terminal marker
Endpoints == {"good", "unreachable", "rejects", "drops"}

\* Kinds of rejection the script can be terminated by.
ConnectionError        == "ConnectionError"
ProtocolError          == "ProtocolError"
StreamInterruptedError == "StreamInterruptedError"
NoError                == "none"

VARIABLES
    pc,        \* position of the script: "create" (line 9), "loop" (line 15), "done", "failed"
    endpoint,  \* behaviour of the endpoint for this run
    wire,      \* response body: "none", "open", "ended" (terminal marker sent), "dropped"
    emitted,   \* every chunk the endpoint has emitted so far, in emission order
    stream,    \* chunks received by the iterable and not yet yielded to the loop
    printed,   \* chunks handed to console.log, in order
    error      \* rejection that ended the script, or NoError

vars == <<pc, endpoint, wire, emitted, stream, printed, error>>

Chunk == [id : 1..MaxChunks, content : Contents]

TypeOK ==
    /\ pc \in {"create", "loop", "done", "failed"}
    /\ endpoint \in Endpoints
    /\ wire \in {"none", "open", "ended", "dropped"}
    /\ emitted \in Seq(Chunk)
    /\ stream \in Seq(Chunk)
    /\ printed \in Seq(Chunk)
    /\ error \in {NoError, ConnectionError, ProtocolError, StreamInterruptedError}

\* The client is constructed (lines 3-6) and the script is about to await
\* create (line 9); nothing has been sent, received or printed.
Init ==
    /\ pc = "create"
    /\ endpoint \in Endpoints
    /\ wire = "none"
    /\ emitted = <<>>
    /\ stream = <<>>
    /\ printed = <<>>
    /\ error = NoError

----------------------------------------------------------------------------
\* The script (src/node/index.ts)

\* Line 9: the awaited create call resolves with the stream; the script
\* moves on to the loop.
CreateResolves ==
    /\ pc = "create"
    /\ endpoint \in {"good", "drops"}
    /\ pc' = "loop"
    /\ wire' = "open"
    /\ UNCHANGED <<endpoint, emitted, stream, printed, error>>

\* Mutant: the rejection of create is swallowed and the loop is entered.
CreateRejects_Swallowed ==
    /\ pc = "create"
    /\ endpoint \in {"unreachable", "rejects"}
    /\ pc' = "loop"
    /\ wire' = "open"
    /\ error' = IF endpoint = "unreachable" THEN ConnectionError ELSE ProtocolError
    /\ UNCHANGED <<endpoint, emitted, stream, printed>>

\* Line 9: the awaited create call rejects.  The top-level await rethrows,
\* there is no try/catch, so lines 15-17 are never executed.
CreateRejects ==
    /\ pc = "create"
    /\ endpoint \in {"unreachable", "rejects"}
    /\ pc' = "failed"
    /\ error' = IF endpoint = "unreachable" THEN ConnectionError ELSE ProtocolError
    /\ UNCHANGED <<endpoint, wire, emitted, stream, printed>>

\* Mutant: the loop hands out the most recently received chunk first.
LoopBody_NewestFirst ==
    /\ pc = "loop"
    /\ stream # <<>>
    /\ printed' = Append(printed, stream[Len(stream)])
    /\ stream' = SubSeq(stream, 1, Len(stream) - 1)
    /\ UNCHANGED <<pc, endpoint, wire, emitted, error>>

\* Mutant: the loop prints the current chunk without advancing the iterator.
LoopBody_NoAdvance ==
    /\ pc = "loop"
    /\ stream # <<>>
    /\ printed' = Append(printed, Head(stream))
    /\ UNCHANGED <<pc, endpoint, wire, emitted, stream, error>>

\* Lines 15-17: one iteration.  The iterator yields the oldest chunk it
\* holds and the body prints it with one console.log call.
LoopBody ==
    /\ pc = "loop"
    /\ stream # <<>>
    /\ printed' = Append(printed, Head(stream))
    /\ stream' = Tail(stream)
    /\ UNCHANGED <<pc, endpoint, wire, emitted, error>>

\* Mutant: the loop does not await the next chunk; it ends as soon as the
\* iterator holds nothing.
LoopExhausted_NoAwait ==
    /\ pc = "loop"
    /\ stream = <<>>
    /\ pc' = "done"
    /\ UNCHANGED <<endpoint, wire, emitted, stream, printed, error>>

\* Lines 15-17: the iterator reports exhaustion and the loop, and with it
\* the script, ends normally.  The script does not look for a terminal
\* marker itself: it ends whenever the iterator says it is done, which the
\* iterator may do after the marker or after the body was closed.
LoopExhausted ==
    /\ pc = "loop"
    /\ stream = <<>>
    /\ wire \in {"ended", "dropped"}
    /\ pc' = "done"
    /\ UNCHANGED <<endpoint, wire, emitted, stream, printed, error>>

\* Mutant: a rejection inside the loop is caught and the loop carries on.
LoopThrows_Caught ==
    /\ pc = "loop"
    /\ wire = "dropped"
    /\ error = NoError
    /\ error' = StreamInterruptedError
    /\ UNCHANGED <<pc, endpoint, wire, emitted, stream, printed>>

\* Lines 15-17: the iterator rejects (the body was closed before the
\* terminal marker).  `for await` rethrows, nothing catches it, and the
\* script ends with the error.
LoopThrows ==
    /\ pc = "loop"
    /\ stream = <<>>
    /\ wire = "dropped"
    /\ pc' = "failed"
    /\ error' = StreamInterruptedError
    /\ UNCHANGED <<endpoint, wire, emitted, stream, printed>>

----------------------------------------------------------------------------
\* The endpoint at baseURL (line 4), answering the request of lines 9-13

\* The endpoint emits one more chunk on the open response.
EndpointEmit(c) ==
    /\ wire = "open"
    /\ Len(emitted) < MaxChunks
    /\ LET chunk == [id |-> Len(emitted) + 1, content |-> c]
       IN  /\ emitted' = Append(emitted, chunk)
           /\ stream' = Append(stream, chunk)
    /\ UNCHANGED <<pc, endpoint, wire, printed, error>>

\* The endpoint sends its terminal marker and ends the response.
EndpointEnds ==
    /\ wire = "open"
    /\ wire' = "ended"
    /\ UNCHANGED <<pc, endpoint, emitted, stream, printed, error>>

\* The endpoint closes the connection before its terminal marker.
EndpointDrops ==
    /\ wire = "open"
    /\ endpoint = "drops"
    /\ wire' = "dropped"
    /\ UNCHANGED <<pc, endpoint, emitted, stream, printed, error>>

----------------------------------------------------------------------------

Script == CreateResolves \/ CreateRejects \/ LoopBody \/ LoopExhausted \/ LoopThrows

Next ==
    \/ CreateResolves
    \/ CreateRejects
    \/ LoopBody
    \/ LoopExhausted
    \/ LoopThrows
    \/ \E c \in Contents : EndpointEmit(c)
    \/ EndpointEnds
    \/ EndpointDrops

Spec == Init /\ [][Next]_vars

\* The event loop resumes the script whenever the promise it awaits has
\* settled, and an endpoint that is not closed eventually ends its response.
FairSpec ==
    /\ Spec
    /\ WF_vars(Script)
    /\ WF_vars(EndpointEnds)

----------------------------------------------------------------------------
\* Properties

IsPrefix(s, t) ==
    /\ Len(s) <= Len(t)
    /\ \A i \in 1..Len(s) : s[i] = t[i]

\* C1: the chunks handed to the consumer are at every moment a prefix of
\* the chunks the endpoint has emitted, in emission order, one delivery per
\* emitted chunk (the i-th delivery is exactly the i-th emitted chunk).
C1_InOrderDelivery == IsPrefix(printed, emitted)

\* C1 witness: several chunks have been delivered while a later one is
\* still waiting in the iterator.
C1_Witness ==
    /\ Len(printed) >= 2
    /\ stream # <<>>
    /\ printed[1].content # printed[2].content

\* C6: when create fails before any response data (endpoint unreachable:
\* ConnectionError; non-success status: ProtocolError) the error reaches
\* the caller, the loop is never entered and no chunk is delivered.
C6_CreateFailureDeliversNothing ==
    /\ endpoint \in {"unreachable", "rejects"} =>
          /\ pc \in {"create", "failed"}
          /\ printed = <<>>
    /\ (endpoint = "unreachable" /\ pc # "create") =>
          (pc = "failed" /\ error = ConnectionError)
    /\ (endpoint = "rejects" /\ pc # "create") =>
          (pc = "failed" /\ error = ProtocolError)

\* C6 witness: the script was ended by the rejection of create.
C6_Witness ==
    /\ pc = "failed"
    /\ error = ProtocolError
    /\ endpoint = "rejects"

\* C8: with a reachable, well-behaved endpoint the script eventually ends
\* normally, having delivered every chunk the endpoint emitted.
C8_GoodEndpointTerminates ==
    (endpoint = "good") ~>
        (pc = "done" /\ error = NoError /\ wire = "ended" /\ printed = emitted)

\* C8 witness: a normal end after a complete multi-chunk response.
C8_Witness ==
    /\ endpoint = "good"
    /\ pc = "done"
    /\ error = NoError
    /\ Len(emitted) >= 2
    /\ printed = emitted

\* C9: no emitted chunk is delivered twice, and the number of deliveries
\* never exceeds the number of chunks emitted so far.
C9_AtMostOnce ==
    /\ Len(printed) <= Len(emitted)
    /\ \A i, j \in 1..Len(printed) : i # j => printed[i].id # printed[j].id

\* C9 witness: every emitted chunk of a multi-chunk response was delivered.
C9_Witness ==
    /\ Len(printed) >= 2
    /\ Len(printed) = Len(emitted)
    /\ stream = <<>>

====
